---- MODULE Spec2Model ----
(***************************************************************************)
(* Model of lesson5/lesson5_4.py: the ChatModelsManager (backend registry, *)
(* active selection, system message, conversation history), the module     *)
(* level export_conversation helper and main().                            *)
(*                                                                         *)
(* Text is a sequence of one-character strings, so that str.strip() can be *)
(* computed.  Formatted strings (f-strings) are sequences of their parts.  *)
(* The fixed messages of the program are written in ASCII; the original    *)
(* text is given in the comment beside each.                               *)
(***************************************************************************)
EXTENDS Naturals, Sequences, FiniteSets, TLC

VARIABLES
    env,                   \* process environment read by _initialize_models
    models,                \* self.models: registry keys, in insertion order
    current_model,         \* self.current_model
    conversation_history,  \* self.conversation_history
    system_message,        \* self.system_message
    now,                   \* the wall clock read by datetime.now(), in seconds
    call,                  \* the latest call made on the module: operation and arguments
    ret,                   \* what that call returned
    invoked,               \* the adapter invocation that call made, or NoInvoke
    completed,             \* successful chat calls since the transcript was last empty
    mainpc,                \* position of main()
    free_port,             \* main()'s free_port local
    chatbot,               \* the Chatbot component's value: chat_function's history
    shown,                 \* per pair of chatbot entries: did that call save its turns
    threads,               \* the chat calls in flight, one per worker thread, each
                           \* with whether it began while another was in flight
    started,               \* how many chat calls have reached the adapter in threads
    provenance             \* per transcript turn: the call that saved it and the
                           \* transcript that call had read

\* what the calls made one at a time on the manager leave alone
others == <<chatbot, shown, threads, started, provenance>>

vars == <<env, models, current_model, conversation_history, system_message,
          now, call, ret, invoked, completed, mainpc, free_port,
          chatbot, shown, threads, started, provenance>>

----------------------------------------------------------------------------
(* Bounds of the model *)

MaxTurns == 4      \* no turn pair is added once the transcript holds this many turns
MaxClock == 1      \* the clock stops advancing here
MaxCtorFailures == 1   \* how many client constructors may raise in one start-up
MaxDisplay == 6    \* chat_function is not called once chatbot holds this many entries
MaxCalls == 2      \* how many chat calls the worker threads send to an adapter

(* Program constants *)

None == "<None>"                                   \* Python's None

Ollama    == "Ollama (llama3.2)"
Gemini    == "Gemini (gemini-2.5-flash)"
OpenAI    == "OpenAI (gpt-4o-mini)"
Anthropic == "Anthropic (claude-3-5-sonnet)"
Candidates == {Ollama, Gemini, OpenAI, Anthropic}
EnvKeys == {"GOOGLE_API_KEY", "OPENAI_API_KEY", "ANTHROPIC_API_KEY"}

DefaultSystemMessage == <<"d">>      \* the default system message of __init__
GuidanceMsg     == <<"PLEASE_ENTER_YOUR_QUESTION">>     \* "請輸入您的問題..."
NoModelMsg      == <<"X_NO_MODEL_AVAILABLE">>           \* "❌ 沒有可用的模型，請檢查模型設定"
NothingToExport == <<"X_NO_HISTORY_TO_EXPORT">>         \* "❌ 沒有對話歷史可匯出"
ClearedMsg      == <<"OK_HISTORY_CLEARED">>             \* "✅ 對話歷史已清除"
SystemUpdatedMsg == <<"OK_SYSTEM_MESSAGE_UPDATED">>     \* "✅ 系統訊息已更新"
ErrorPrefix     == "X_ERROR: "                          \* "❌ 發生錯誤: "
SwitchedPrefix  == "OK_SWITCHED_TO "                    \* "✅ 已切換至 "
UnavailablePrefix == "X_MODEL "                         \* "❌ 模型 "
UnavailableSuffix == " UNAVAILABLE"                     \* " 不可用"

NoInvoke == [model |-> None, messages |-> <<>>]
NoRet == <<>>

(* Inputs *)

UserInputs == {<<>>, <<" ">>, <<"a">>, <<" ", "a", " ">>}
Responses == {<<"a">>, <<"b">>}             \* response.content of a returning invoke
Errors == {<<"t", "i", "m", "e", "o", "u", "t">>}   \* str(e) of a raising invoke
StartupInputs == {<<"a">>}
SystemMessages == {DefaultSystemMessage, <<"s">>}
ModelNameArgs == {Ollama, Gemini, "Unknown", None}   \* set_model's argument
OverrideArgs == {Gemini, "Unknown", None}            \* chat's model_name argument
CredentialValues == {None, "", "sk"}        \* os.getenv: unset, set but empty, set

----------------------------------------------------------------------------
(* Python helpers *)

IsSpace(c) == c = " "

RECURSIVE lstrip(_)
lstrip(s) == IF s # <<>> /\ IsSpace(Head(s)) THEN lstrip(Tail(s)) ELSE s

RECURSIVE rstrip(_)
rstrip(s) ==
    IF s # <<>> /\ IsSpace(s[Len(s)]) THEN rstrip(SubSeq(s, 1, Len(s) - 1)) ELSE s

\* a blank test written "if not user_input:", without the strip
strip_omitted(s) == s

\* str.strip()
strip(s) == rstrip(lstrip(s))

\* truth value of a str or None, as in "if os.getenv(...)" and "model_name and ..."
Truthy(v) == v # None /\ v # ""

\* list(self.models.keys()) is models itself; name in self.models
InModels(ms, name) == \E i \in 1..Len(ms) : ms[i] = name

\* str.title() on the two role names
title(role) == IF role = "user" THEN "User"
               ELSE IF role = "assistant" THEN "Assistant" ELSE role

\* datetime.strftime("%Y-%m-%d %H:%M:%S")
strftime(t) == <<"T", t>>

----------------------------------------------------------------------------
(* ChatModelsManager *)

\* one try block of _initialize_models: the key is set when the guard holds and
\* the client constructor does not raise
Register(e, name, guard) ==
    IF guard /\ name \notin e.ctor_raises THEN <<name>> ELSE <<>>

\* _initialize_models, the registry part: the keys of self.models in insertion order
_initialize_models(e) ==
    Register(e, Ollama, TRUE)
    \o Register(e, Gemini, Truthy(e.getenv["GOOGLE_API_KEY"]))
    \o Register(e, OpenAI, Truthy(e.getenv["OPENAI_API_KEY"]))
    \o Register(e, Anthropic, Truthy(e.getenv["ANTHROPIC_API_KEY"]))

\* the default taken from the wrong end of the key list
default_model_last(ms) == IF ms # <<>> THEN ms[Len(ms)] ELSE None

\* _initialize_models, the default model part
default_model(ms) == IF ms # <<>> THEN ms[1] ELSE None

\* set_model without its membership test
set_model_selection_unchecked(ms, cur, model_name) == model_name

\* set_model: the new self.current_model
set_model_selection(ms, cur, model_name) ==
    IF InModels(ms, model_name) THEN model_name ELSE cur

\* set_model: the returned status
set_model_status(ms, model_name) ==
    IF InModels(ms, model_name) THEN <<SwitchedPrefix, model_name>>
    ELSE <<UnavailablePrefix, model_name, UnavailableSuffix>>

\* a clear that drops only the latest turn pair
cleared_history_last_pair(h) == SubSeq(h, 1, Len(h) - 2)

\* clear_conversation: the new self.conversation_history
cleared_history(h) == <<>>

\* add_message
add_message(h, role, content, t) ==
    Append(h, [role |-> role, content |-> content, timestamp |-> strftime(t)])

\* chat: the backend the call resolves to
selected_model(ms, cur, model_name) ==
    IF Truthy(model_name) /\ InModels(ms, model_name) THEN model_name ELSE cur

\* every stored turn passed on as a HumanMessage
history_message_all_human(msg) == <<[type |-> "human", content |-> msg.content]>>

\* chat: one stored turn as a LangChain message (turns of another role are skipped)
history_message(msg) ==
    IF msg.role = "user" THEN <<[type |-> "human", content |-> msg.content]>>
    ELSE IF msg.role = "assistant" THEN <<[type |-> "ai", content |-> msg.content]>>
    ELSE <<>>

RECURSIVE history_messages(_)
history_messages(h) ==
    IF h = <<>> THEN <<>> ELSE history_message(Head(h)) \o history_messages(Tail(h))

\* chat: the message list handed to invoke
build_messages(sys, h, user_input) ==
    <<[type |-> "system", content |-> sys]>>
    \o history_messages(h)
    \o <<[type |-> "human", content |-> user_input]>>

\* chat: the text of the except branch, f"... {str(e)}"
error_msg(e) == <<ErrorPrefix>> \o e

\* chat: the availability test on the resolved backend
no_backend_unless_named(ms, selected) == selected # None /\ ~InModels(ms, selected)

no_backend(ms, selected) == ~Truthy(selected) \/ ~InModels(ms, selected)

\* the turn pair saved with the response first
save_turns_response_first(h, user_input, ai_response, t1, t2) ==
    add_message(add_message(h, "assistant", ai_response, t1), "user", user_input, t2)

\* chat: the two add_message calls that save a turn pair
save_turns(h, user_input, ai_response, t1, t2) ==
    add_message(add_message(h, "user", user_input, t1), "assistant", ai_response, t2)

\* chat with the user turn saved before the adapter is invoked
chat_result_user_saved_first(ms, cur, sys, h, user_input, model_name, raised, text, t1, t2) ==
    IF strip(user_input) = <<>>
    THEN [ret |-> GuidanceMsg, history |-> h, invoked |-> NoInvoke, outcome |-> "none"]
    ELSE LET selected == selected_model(ms, cur, model_name) IN
         IF no_backend(ms, selected)
         THEN [ret |-> NoModelMsg, history |-> h, invoked |-> NoInvoke,
               outcome |-> "none"]
         ELSE LET messages == build_messages(sys, h, user_input)
                  inv == [model |-> selected, messages |-> messages]
                  saved == add_message(h, "user", user_input, t1)
              IN  IF raised
                  THEN [ret |-> error_msg(text), history |-> saved, invoked |-> inv,
                        outcome |-> "raised"]
                  ELSE [ret |-> text,
                        history |-> add_message(saved, "assistant", text, t2),
                        invoked |-> inv, outcome |-> "returned"]

\* chat, as a function of the manager's fields, the arguments and what the
\* adapter does when invoked (it raises str(e) = text, or returns content = text);
\* t1 and t2 are the clock readings of the two add_message calls
chat_result(ms, cur, sys, h, user_input, model_name, raised, text, t1, t2) ==
    IF strip(user_input) = <<>>
    THEN [ret |-> GuidanceMsg, history |-> h, invoked |-> NoInvoke, outcome |-> "none"]
    ELSE LET selected == selected_model(ms, cur, model_name) IN
         IF no_backend(ms, selected)
         THEN [ret |-> NoModelMsg, history |-> h, invoked |-> NoInvoke,
               outcome |-> "none"]
         ELSE LET messages == build_messages(sys, h, user_input)
                  inv == [model |-> selected, messages |-> messages]
              IN  IF raised
                  THEN [ret |-> error_msg(text), history |-> h, invoked |-> inv,
                        outcome |-> "raised"]
                  ELSE [ret |-> text,
                        history |-> save_turns(h, user_input, text, t1, t2),
                        invoked |-> inv, outcome |-> "returned"]

----------------------------------------------------------------------------
(* export_conversation: the document is the sequence of its lines, each line *)
(* the sequence of the parts its f-string joins                              *)

role_emoji(msg) == IF msg.role = "user" THEN "user-emoji" ELSE "robot-emoji"

\* entries numbered by enumerate(history), from 0
export_entry_zero_based(i, msg) ==
    << <<"## ", i - 1, ". ", role_emoji(msg), " ", title(msg.role)>>,
       <<"**time**: ", msg.timestamp>>,
       <<"**content**: ", msg.content>>,
       <<>> >>

\* one pass of the loop over enumerate(history, 1)
export_entry(i, msg) ==
    << <<"## ", i, ". ", role_emoji(msg), " ", title(msg.role)>>,
       <<"**time**: ", msg.timestamp>>,
       <<"**content**: ", msg.content>>,
       <<>> >>

RECURSIVE export_entries(_, _)
\* the loop over enumerate(history, 1), from index i on
export_entries(h, i) ==
    IF i > Len(h) THEN <<>> ELSE export_entry(i, h[i]) \o export_entries(h, i + 1)

export_header(cur, t) ==
    << <<"# EXPORTED CONVERSATION">>,
       <<"export time: ", strftime(t)>>,
       <<"model: ", cur>>,
       <<>> >>

export_conversation(h, cur, t) ==
    IF h = <<>> THEN NothingToExport
    ELSE export_header(cur, t) \o export_entries(h, 1)

----------------------------------------------------------------------------
(* main and find_free_port *)

StartPort == 7860
MaxPort == 7900
Ports == StartPort..(MaxPort - 1)

\* find_free_port: the first port of the range that binds, or None (written 0
\* here: main tests the result with "not free_port")
find_free_port(busy) ==
    IF Ports \subseteq busy THEN 0
    ELSE CHOOSE p \in Ports \ busy : \A q \in Ports \ busy : p <= q

BusyPortSets == {{}, Ports}

----------------------------------------------------------------------------
(* State machine *)

Threads == {1, 2}         \* worker threads running handlers at the same time

\* a worker thread with no chat call in flight
IdleThread == [pc |-> "idle", user_input |-> <<>>, context |-> <<>>,
               response |-> <<>>, id |-> 0, overlapped |-> FALSE]

\* a call record: the operation, its text and name arguments, what the adapter
\* did in it, and the length of the transcript when it was made
Call(op, text, name, outcome) ==
    [op |-> op, text |-> text, name |-> name, outcome |-> outcome,
     before |-> Len(conversation_history)]

\* what start-up finds: which client constructors raise, whether the Ollama
\* service at localhost:11434 answers, and the credentials in the environment
Environments ==
    [ctor_raises : {f \in SUBSET Candidates : Cardinality(f) <= MaxCtorFailures},
     ollama_reachable : BOOLEAN,
     getenv : [EnvKeys -> CredentialValues]]

\* the environments the manager's operations are explored in: Ollama and Gemini
\* are the only candidates that can be registered
ManagerEnvironments ==
    {e \in Environments :
        /\ e.ollama_reachable
        /\ e.ctor_raises \subseteq {Ollama}
        /\ e.getenv["GOOGLE_API_KEY"] \in {None, "sk"}
        /\ e.getenv["OPENAI_API_KEY"] = None
        /\ e.getenv["ANTHROPIC_API_KEY"] = None}

\* the module is imported: chat_manager = ChatModelsManager()
Constructed(e) ==
    /\ env = e
    /\ models = _initialize_models(e)
    /\ current_model = default_model(_initialize_models(e))
    /\ conversation_history = <<>>
    /\ system_message = DefaultSystemMessage
    /\ now = 0
    /\ call = Call("__init__", <<>>, None, "none")
    /\ ret = NoRet
    /\ invoked = NoInvoke
    /\ completed = <<>>
    /\ mainpc = "start"
    /\ free_port = 0
    /\ chatbot = <<>>
    /\ shown = <<>>
    /\ threads = [t \in Threads |-> IdleThread]
    /\ started = 0
    /\ provenance = <<>>

Init == \E e \in ManagerEnvironments : Constructed(e)

InitStartup == \E e \in Environments : Constructed(e)

Tick ==
    /\ now < MaxClock
    /\ now' = now + 1
    /\ UNCHANGED <<env, models, current_model, conversation_history, system_message,
                   call, ret, invoked, completed, mainpc, free_port>>
    /\ UNCHANGED others

set_model(model_name) ==
    /\ current_model' = set_model_selection(models, current_model, model_name)
    /\ ret' = set_model_status(models, model_name)
    /\ call' = Call("set_model", <<>>, model_name, "none")
    /\ invoked' = NoInvoke
    /\ UNCHANGED <<env, models, conversation_history, system_message, now,
                   completed, mainpc, free_port>>
    /\ UNCHANGED others

set_system_message(message) ==
    /\ system_message' = message
    /\ ret' = SystemUpdatedMsg
    /\ call' = Call("set_system_message", message, None, "none")
    /\ invoked' = NoInvoke
    /\ UNCHANGED <<env, models, current_model, conversation_history, now,
                   completed, mainpc, free_port>>
    /\ UNCHANGED others

clear_conversation ==
    /\ conversation_history' = cleared_history(conversation_history)
    /\ ret' = ClearedMsg
    /\ call' = Call("clear_conversation", <<>>, None, "none")
    /\ invoked' = NoInvoke
    /\ completed' = <<>>
    /\ UNCHANGED <<env, models, current_model, system_message, now, mainpc, free_port>>
    /\ UNCHANGED others

\* chat: the adapter raises or returns, as the \E chooses; when the call does not
\* reach it (outcome "none") the choice is immaterial and one is fixed. The two
\* add_message calls read the clock within the same second; Tick is the time that
\* passes between calls.
chat_call(user_input, model_name) ==
    /\ \E raised \in BOOLEAN :
       \E text \in (IF raised THEN Errors ELSE Responses) :
       \E r \in {chat_result(models, current_model, system_message,
                              conversation_history, user_input, model_name,
                              raised, text, now, now)} :
              /\ r.outcome = "returned" => Len(conversation_history) < MaxTurns
              /\ r.outcome = "none" => (~raised /\ text = <<"a">>)
              /\ conversation_history' = r.history
              /\ ret' = r.ret
              /\ invoked' = r.invoked
              /\ call' = Call("chat", user_input, model_name, r.outcome)
              /\ completed' = IF r.outcome = "returned"
                              THEN Append(completed,
                                          [input |-> user_input, response |-> text])
                              ELSE completed
    /\ UNCHANGED <<env, models, current_model, system_message, now, mainpc, free_port>>

\* a chat call made on its own
chat(user_input, model_name) ==
    /\ chat_call(user_input, model_name)
    /\ UNCHANGED others

export ==
    /\ ret' = export_conversation(conversation_history, current_model, now)
    /\ call' = Call("export_conversation", <<>>, None, "none")
    /\ invoked' = NoInvoke
    /\ UNCHANGED <<env, models, current_model, conversation_history, system_message,
                   now, completed, mainpc, free_port>>
    /\ UNCHANGED others

\* main without the return in its available_models check
main_check_models_no_return ==
    /\ mainpc = "start"
    /\ mainpc' = "find_port"
    /\ UNCHANGED <<env, models, current_model, conversation_history, system_message,
                   now, call, ret, invoked, completed, free_port>>
    /\ UNCHANGED others

\* main: the available_models check
main_check_models ==
    /\ mainpc = "start"
    /\ mainpc' = IF models = <<>> THEN "returned_no_models" ELSE "find_port"
    /\ UNCHANGED <<env, models, current_model, conversation_history, system_message,
                   now, call, ret, invoked, completed, free_port>>
    /\ UNCHANGED others

\* main: find_free_port and the check of its result
main_find_port ==
    /\ mainpc = "find_port"
    /\ \E busy \in BusyPortSets :
          /\ free_port' = find_free_port(busy)
          /\ mainpc' = IF find_free_port(busy) = 0 THEN "returned_no_port" ELSE "create"
    /\ UNCHANGED <<env, models, current_model, conversation_history, system_message,
                   now, call, ret, invoked, completed>>
    /\ UNCHANGED others

\* main: create_gradio_interface
main_create_interface ==
    /\ mainpc = "create"
    /\ mainpc' = "launch"
    /\ UNCHANGED <<env, models, current_model, conversation_history, system_message,
                   now, call, ret, invoked, completed, free_port>>
    /\ UNCHANGED others

\* main: interface.launch, which serves until the process ends, or raises
main_launch ==
    /\ mainpc = "launch"
    /\ \E raises \in BOOLEAN : mainpc' = IF raises THEN "returned_launch_failed" ELSE "serving"
    /\ UNCHANGED <<env, models, current_model, conversation_history, system_message,
                   now, call, ret, invoked, completed, free_port>>
    /\ UNCHANGED others

\* the manager, driven by any sequence of calls
Next ==
    \/ Tick
    \/ \E n \in ModelNameArgs : set_model(n)
    \/ \E m \in SystemMessages : set_system_message(m)
    \/ clear_conversation
    \/ \E u \in UserInputs, n \in OverrideArgs : chat(u, n)
    \/ export

Spec == Init /\ [][Next]_vars

\* the program from import on: main, and chat calls on the global chat_manager
NextStartup ==
    \/ main_check_models
    \/ main_find_port
    \/ main_create_interface
    \/ main_launch
    \/ \E u \in StartupInputs : chat(u, None)

SpecStartup == InitStartup /\ [][NextStartup]_vars

----------------------------------------------------------------------------
(* The Gradio handlers chat_function and clear_chat *)

\* chat_function: the two appends to the display history
display_append(h, message, response) ==
    h \o << [role |-> "user", content |-> message],
            [role |-> "assistant", content |-> response] >>

\* chat_function, called with the Chatbot value the previous call returned
chat_function(message, model_name) ==
    IF strip(message) = <<>>
    THEN UNCHANGED vars
    ELSE /\ Len(chatbot) < MaxDisplay
         /\ chat_call(message, model_name)
         /\ chatbot' = display_append(chatbot, message, ret')
         /\ shown' = Append(shown, call'.outcome = "returned")
         /\ UNCHANGED <<threads, started, provenance>>

\* a clear_chat that empties the display and leaves the manager alone
clear_chat_display_only ==
    /\ chatbot' = <<>>
    /\ shown' = <<>>
    /\ UNCHANGED <<env, models, current_model, conversation_history, system_message,
                   now, call, ret, invoked, completed, mainpc, free_port,
                   threads, started, provenance>>

\* clear_chat
clear_chat ==
    /\ conversation_history' = cleared_history(conversation_history)
    /\ ret' = ClearedMsg
    /\ call' = Call("clear_conversation", <<>>, None, "none")
    /\ invoked' = NoInvoke
    /\ completed' = <<>>
    /\ chatbot' = <<>>
    /\ shown' = <<>>
    /\ UNCHANGED <<env, models, current_model, system_message, now, mainpc, free_port,
                   threads, started, provenance>>

\* the interface, driven by any sequence of chat_function and clear_chat events
NextUI ==
    \/ \E u \in UserInputs, n \in OverrideArgs : chat_function(u, n)
    \/ clear_chat

SpecUI == Init /\ [][NextUI]_vars

----------------------------------------------------------------------------
(* chat and clear_conversation run by worker threads against the one global  *)
(* chat_manager.  A chat call is cut where another thread can run: after the *)
(* message list is built, after invoke, and between the two add_message calls *)

Manager == <<env, models, current_model, system_message, now, call, ret, invoked,
             completed, mainpc, free_port, chatbot, shown>>

\* chat up to the invoke: the checks, and the message list built from the transcript
\* as it is now; a call that is refused returns at once
thread_begin(t, user_input, model_name) ==
    /\ threads[t].pc = "idle"
    /\ IF \/ strip(user_input) = <<>>
          \/ no_backend(models, selected_model(models, current_model, model_name))
       THEN UNCHANGED vars
       ELSE /\ started < MaxCalls
            /\ started' = started + 1
            /\ threads' = [threads EXCEPT ![t] =
                  [pc |-> "invoking", user_input |-> user_input,
                   context |-> build_messages(system_message, conversation_history,
                                              user_input),
                   response |-> <<>>, id |-> started + 1,
                   overlapped |-> \E o \in Threads : threads[o].pc # "idle"]]
            /\ UNCHANGED <<conversation_history, provenance>>
            /\ UNCHANGED Manager

\* model.invoke returns or raises; a raise ends the call in the except branch
thread_invoke(t) ==
    /\ threads[t].pc = "invoking"
    /\ \E raised \in BOOLEAN :
          IF raised
          THEN threads' = [threads EXCEPT ![t] = IdleThread]
          ELSE \E text \in Responses :
                  threads' = [threads EXCEPT ![t].pc = "save_user",
                                             ![t].response = text]
    /\ UNCHANGED <<conversation_history, provenance, started>>
    /\ UNCHANGED Manager

\* self.add_message("user", user_input)
thread_save_user(t) ==
    /\ threads[t].pc = "save_user"
    /\ conversation_history' =
          add_message(conversation_history, "user", threads[t].user_input, now)
    /\ provenance' = Append(provenance,
                            [id |-> threads[t].id, messages |-> threads[t].context,
                             overlapped |-> threads[t].overlapped])
    /\ threads' = [threads EXCEPT ![t].pc = "save_assistant"]
    /\ UNCHANGED started
    /\ UNCHANGED Manager

\* self.add_message("assistant", ai_response) and the return
thread_save_assistant(t) ==
    /\ threads[t].pc = "save_assistant"
    /\ conversation_history' =
          add_message(conversation_history, "assistant", threads[t].response, now)
    /\ provenance' = Append(provenance,
                            [id |-> threads[t].id, messages |-> threads[t].context,
                             overlapped |-> threads[t].overlapped])
    /\ threads' = [threads EXCEPT ![t] = IdleThread]
    /\ UNCHANGED started
    /\ UNCHANGED Manager

\* clear_conversation, run by the clear button's handler while calls are in flight
thread_clear ==
    /\ conversation_history' = cleared_history(conversation_history)
    /\ provenance' = <<>>
    /\ UNCHANGED <<threads, started>>
    /\ UNCHANGED Manager

NextConcurrent ==
    \/ \E t \in Threads, u \in UserInputs, n \in OverrideArgs : thread_begin(t, u, n)
    \/ \E t \in Threads : thread_invoke(t)
    \/ \E t \in Threads : thread_save_user(t)
    \/ \E t \in Threads : thread_save_assistant(t)
    \/ thread_clear

SpecConcurrent == Init /\ [][NextConcurrent]_vars

----------------------------------------------------------------------------
(* Properties *)

RegistryKeys == {models[i] : i \in 1..Len(models)}

IsBlank(s) == \A i \in 1..Len(s) : s[i] = " "

RoleContent(h) == [i \in 1..Len(h) |-> [role |-> h[i].role, content |-> h[i].content]]

RECURSIVE ExpectedTurns(_)
\* the turns that a sequence of successful calls should have left
ExpectedTurns(c) ==
    IF c = <<>> THEN <<>>
    ELSE << [role |-> "user", content |-> Head(c).input],
            [role |-> "assistant", content |-> Head(c).response] >>
         \o ExpectedTurns(Tail(c))

\* C1: after N successful chat calls since the transcript was empty, the transcript
\* has 2N turns, the k-th call's (user, input) and (assistant, response) at
\* positions 2k-1 and 2k, and a successful call returns its assistant text.
C1_TranscriptIsTheSuccessfulCalls ==
    /\ Len(conversation_history) = 2 * Len(completed)
    /\ RoleContent(conversation_history) = ExpectedTurns(completed)
    /\ (call.op = "chat" /\ call.outcome = "returned") =>
          /\ completed # <<>>
          /\ ret = completed[Len(completed)].response
          /\ ret = conversation_history[Len(conversation_history)].content

C1_Witness ==
    /\ call.op = "chat" /\ call.outcome = "returned"
    /\ Len(completed) = 2
    /\ completed[1].input # completed[2].input
    /\ completed[1].response # completed[2].response

\* C2: a chat call whose adapter raises leaves the transcript as it was and
\* returns the failure text built from the exception.
C2_AdapterFailureLeavesTranscript ==
    [][(call'.op = "chat" /\ call'.outcome = "raised") =>
          /\ conversation_history' = conversation_history
          /\ ret' # <<>> /\ ret'[1] = ErrorPrefix /\ Tail(ret') \in Errors]_vars

C2_Witness ==
    /\ call.op = "chat" /\ call.outcome = "raised"
    /\ call.before = 2
    /\ Len(conversation_history) = 2
    /\ ret[1] = ErrorPrefix

\* C3: a chat call with empty or whitespace-only text invokes no adapter, leaves
\* the transcript as it was and returns the fixed guidance message.
C3_BlankInputIsRejected ==
    [][(call'.op = "chat" /\ IsBlank(call'.text)) =>
          /\ invoked' = NoInvoke
          /\ call'.outcome = "none"
          /\ conversation_history' = conversation_history
          /\ ret' = GuidanceMsg]_vars

C3_Witness ==
    /\ call.op = "chat" /\ call.text = <<" ">>
    /\ models # <<>>
    /\ conversation_history # <<>>
    /\ ret = GuidanceMsg

\* C4: set_model(name) makes name the selection when name is a registry key, and
\* otherwise leaves the selection as it was and returns the 'unavailable' status.
C4_SetModelOnlyToRegistered ==
    [][call'.op = "set_model" =>
          IF call'.name \in RegistryKeys
          THEN /\ current_model' = call'.name
               /\ ret' = <<SwitchedPrefix, call'.name>>
          ELSE /\ current_model' = current_model
               /\ ret' = <<UnavailablePrefix, call'.name, UnavailableSuffix>>]_vars

C4_Witness ==
    /\ call.op = "set_model" /\ call.name = "Unknown"
    /\ models = <<Ollama, Gemini>>
    /\ current_model = Gemini

\* C5: clear_conversation empties the transcript whatever its length and leaves
\* the selection, the system message and the registry as they were.
C5_ClearOnlyEmptiesTranscript ==
    [][call'.op = "clear_conversation" =>
          /\ conversation_history' = <<>>
          /\ current_model' = current_model
          /\ system_message' = system_message
          /\ models' = models]_vars

C5_Witness ==
    /\ call.op = "clear_conversation" /\ call.before = 4
    /\ conversation_history = <<>>
    /\ current_model = Gemini
    /\ system_message # DefaultSystemMessage

CandidateOrder == <<Ollama, Gemini, OpenAI, Anthropic>>

\* C6: the selection is always a registry key, or unset with an empty registry;
\* right after construction it is the first candidate that was registered.
C6_SelectionIsRegistered ==
    /\ \/ current_model \in RegistryKeys
       \/ current_model = None /\ models = <<>>
    /\ (call.op = "__init__" /\ models # <<>>) =>
          \E i \in 1..Len(CandidateOrder) :
             /\ current_model = CandidateOrder[i]
             /\ \A j \in 1..(i - 1) : CandidateOrder[j] \notin RegistryKeys

C6_Witness ==
    /\ call.op = "set_model" /\ call.name = "Unknown"
    /\ models = <<Gemini>>
    /\ current_model = Gemini
    /\ conversation_history # <<>>

\* the numbered heading lines of an exported document
EntryHeadings(doc) ==
    {k \in 1..Len(doc) : Len(doc[k]) = 6 /\ doc[k][1] = "## "}

\* C7: export_conversation returns the 'nothing to export' indicator exactly when
\* the transcript is empty; otherwise a document under a header naming the
\* selection, with one numbered entry per turn, in transcript order, each with
\* that turn's role, timestamp and content.
C7_ExportListsEveryTurn ==
    call.op = "export_conversation" =>
       IF conversation_history = <<>>
       THEN ret = NothingToExport
       ELSE /\ ret # NothingToExport
            /\ ret[3] = <<"model: ", current_model>>
            /\ Cardinality(EntryHeadings(ret)) = Len(conversation_history)
            /\ \A i \in 1..Len(conversation_history) :
                  /\ 4 * i + 1 \in EntryHeadings(ret)
                  /\ ret[4 * i + 1][2] = i
                  /\ ret[4 * i + 1][6] =
                        (IF conversation_history[i].role = "user"
                         THEN "User" ELSE "Assistant")
                  /\ ret[4 * i + 2] =
                        <<"**time**: ", conversation_history[i].timestamp>>
                  /\ ret[4 * i + 3] =
                        <<"**content**: ", conversation_history[i].content>>

C7_Witness ==
    /\ call.op = "export_conversation"
    /\ Len(conversation_history) = 4
    /\ conversation_history[1].timestamp # conversation_history[4].timestamp
    /\ current_model = Gemini

\* C8: with an empty registry every chat call with non-blank text, with or without
\* a backend-name override, returns the 'no backend available' message, invokes
\* no adapter and leaves the transcript as it was.
C8_EmptyRegistryReportsNoBackend ==
    [][(models = <<>> /\ call'.op = "chat" /\ ~IsBlank(call'.text)) =>
          /\ ret' = NoModelMsg
          /\ invoked' = NoInvoke
          /\ call'.outcome = "none"
          /\ conversation_history' = conversation_history]_vars

C8_Witness ==
    /\ models = <<>>
    /\ call.op = "chat" /\ call.text = <<" ", "a", " ">> /\ call.name = Gemini
    /\ ret = NoModelMsg

\* C9: a candidate is a registry key only if its prerequisite check passed: the
\* local-served backend only if its service answered the reachability probe, a
\* hosted backend only if its credential is present in the environment.
C9_RegisteredOnlyIfPrerequisiteHolds ==
    /\ Ollama \in RegistryKeys => env.ollama_reachable
    /\ Gemini \in RegistryKeys => env.getenv["GOOGLE_API_KEY"] # None
    /\ OpenAI \in RegistryKeys => env.getenv["OPENAI_API_KEY"] # None
    /\ Anthropic \in RegistryKeys => env.getenv["ANTHROPIC_API_KEY"] # None

\* C10 as stated: with an empty registry main does not terminate before launch.
C10_EmptyRegistryStillLaunches ==
    models = <<>> => mainpc # "returned_no_models"

\* C10 as amended: with an empty registry main returns from its check of the
\* available models, before the interface is built or launched; chat calls on
\* the global chat_manager each report 'no backend available'.
C10_EmptyRegistryReturnsBeforeLaunch ==
    models = <<>> =>
       /\ mainpc \in {"start", "returned_no_models"}
       /\ (call.op = "chat" /\ ~IsBlank(call.text)) => ret = NoModelMsg

C10_Witness ==
    /\ models = <<>>
    /\ mainpc = "returned_no_models"
    /\ call.op = "chat" /\ ret = NoModelMsg

\* the message type that stands for a role
MessageType(role) == IF role = "user" THEN "human" ELSE "ai"

\* the message list of the latest chat call, against the system message and the
\* transcript that call found (the first call.before turns of the transcript)
MessagesAreInstructionTranscriptInput ==
    (call.op = "chat" /\ call.outcome # "none") =>
       /\ invoked # NoInvoke
       /\ Len(invoked.messages) = call.before + 2
       /\ invoked.messages[1] = [type |-> "system", content |-> system_message]
       /\ \A i \in 1..call.before :
             invoked.messages[i + 1] =
                [type |-> MessageType(conversation_history[i].role),
                 content |-> conversation_history[i].content]
       /\ invoked.messages[call.before + 2] = [type |-> "human", content |-> call.text]

\* C11: a chat call that reaches the adapter passes the current system message
\* first, then one message per transcript turn in order with its role and content,
\* then the call's user text, transcript length + 2 messages in all; and
\* set_system_message replaces the system message and alters no stored turn.
C11_MessagesSentToAdapter ==
    /\ []MessagesAreInstructionTranscriptInput
    /\ [][call'.op = "set_system_message" =>
             /\ system_message' = call'.text
             /\ conversation_history' = conversation_history]_vars

C11_Witness ==
    /\ call.op = "chat" /\ call.outcome = "returned" /\ call.before = 2
    /\ system_message # DefaultSystemMessage
    /\ invoked.messages[1].content = system_message
    /\ Len(invoked.messages) = 4
    /\ invoked.messages[2].type = "human" /\ invoked.messages[3].type = "ai"

RECURSIVE SavedPairs(_, _)
\* the display entries of the calls that saved their turns
SavedPairs(d, flags) ==
    IF flags = <<>> THEN <<>>
    ELSE (IF Head(flags) THEN SubSeq(d, 1, 2) ELSE <<>>)
         \o SavedPairs(SubSeq(d, 3, Len(d)), Tail(flags))

FailureTexts == {NoModelMsg} \cup {<<ErrorPrefix>> \o e : e \in Errors}

\* C12 as stated: the display history and the transcript hold the same sequence of
\* (role, content) pairs, also after a call whose adapter failed or for which no
\* backend resolved.
C12_DisplayEqualsTranscript ==
    chatbot = RoleContent(conversation_history)

\* C12 as amended: a call whose adapter failed or for which no backend resolved
\* adds (user, message) and (assistant, the failure text) to the display and
\* nothing to the transcript; the transcript is the display without those pairs,
\* and the two are equal when no such call was made since the last clear.
C12_TranscriptIsDisplayWithoutFailures ==
    /\ Len(chatbot) = 2 * Len(shown)
    /\ SavedPairs(chatbot, shown) = RoleContent(conversation_history)
    /\ \A k \in 1..Len(shown) :
          /\ chatbot[2 * k - 1].role = "user"
          /\ chatbot[2 * k].role = "assistant"
          /\ ~shown[k] => chatbot[2 * k].content \in FailureTexts
    /\ (\A k \in 1..Len(shown) : shown[k]) => chatbot = RoleContent(conversation_history)

C12_Witness ==
    /\ Len(shown) = 3
    /\ shown[1] /\ ~shown[2] /\ shown[3]
    /\ Len(conversation_history) = 4
    /\ chatbot[4].content # NoModelMsg

\* C13: when chat calls have been in flight at the same time and none is in flight
\* any more, the transcript is a sequence of adjacent
\* (user, assistant) pairs, each saved by one call, and that call's response was
\* generated from a message list holding exactly the turns before its pair.
C13_QuiescentTranscriptIsPairs ==
    (/\ \A t \in Threads : threads[t].pc = "idle"
     /\ \E i \in 1..Len(provenance) : provenance[i].overlapped) =>
       /\ Len(conversation_history) % 2 = 0
       /\ \A k \in 1..(Len(conversation_history) \div 2) :
             /\ conversation_history[2 * k - 1].role = "user"
             /\ conversation_history[2 * k].role = "assistant"
             /\ provenance[2 * k - 1].id = provenance[2 * k].id
             /\ Len(provenance[2 * k].messages) = 2 * k
             /\ \A i \in 1..(2 * k - 2) :
                   provenance[2 * k].messages[i + 1] =
                      [type |-> MessageType(conversation_history[i].role),
                       content |-> conversation_history[i].content]

====
